---- MODULE Spec2Model ----
(***************************************************************************)
(* InvoiceAI front end (src/unnamed/part_000): the auth provider, the auth *)
(* modal, the page shell with its navigation bar, the upload page and the  *)
(* dashboard, as one state machine.  Every useState cell is a variable;    *)
(* every event handler, timer callback, promise continuation and effect is *)
(* an action.  A component that is not rendered has no state: its cells    *)
(* hold their useState initial values until it is mounted again.           *)
(***************************************************************************)
EXTENDS Integers, Sequences, FiniteSets, TLC

VARIABLES
    user,           \* AuthProvider: useState(null)
    loading,        \* AuthProvider: useState(false)
    loginTimers,    \* pending setTimeout callbacks of login, oldest first
    mode,           \* AuthModal: useState('login')
    email,          \* AuthModal: useState('')
    isSubmitting,   \* AuthModal: useState(false)
    magicTimers,    \* pending setTimeout callbacks of handleMagicLink
    inflight,       \* fetch calls of the Google handler awaiting a response
    network,        \* every request issued so far, oldest first
    files,          \* UploadPage: useState([])
    isDragging,     \* UploadPage: useState(false)
    uploadProgress, \* UploadPage: useState(0)
    isUploading,    \* UploadPage: useState(false)
    interval,       \* TRUE while the mounted UploadPage's setInterval is live
    orphans,        \* live intervals whose UploadPage has been unmounted
    invoices,       \* Dashboard: useState([...]) (no setter is taken)
    currentPage,    \* InvoiceAI: useState('landing')
    showAuthModal   \* InvoiceAI: useState(false)

authVars   == <<user, loading, loginTimers>>
modalVars  == <<mode, email, isSubmitting, magicTimers>>
netVars    == <<inflight, network>>
uploadVars == <<files, isDragging, uploadProgress, isUploading, interval, orphans>>
shellVars  == <<currentPage, showAuthModal>>
vars == <<user, loading, loginTimers, mode, email, isSubmitting, magicTimers,
          inflight, network, files, isDragging, uploadProgress, isUploading,
          interval, orphans, invoices, currentPage, showAuthModal>>

----------------------------------------------------------------------------
(* Bounds of the model *)

\* sign-in attempts that may be pending (fetch, magic-link timer, login timer)
MaxPending == 2
\* requests the network log may hold
MaxRequests == 2
\* leaked intervals the model keeps count of
MaxOrphans == 1

(* Program constants *)

MaxFiles == 100
ProgressDone == 100

\* JavaScript null (user before sign-in, a JSON null response body)
Null == [null |-> TRUE]

Min(a, b) == IF a < b THEN a ELSE b
Max(a, b) == IF a > b THEN a ELSE b

----------------------------------------------------------------------------
(* Inputs *)

\* what the user may type into the e-mail input
EmailInputs == {"", "a@x.com"}

\* credentials the Google widget may hand to onSuccess
Credentials == {"cred1", "cred2"}

\* bodies the server may answer a 200 with (res.json())
ServerData ==
    { Null,
      [token |-> "t1", user |-> [id |-> 7, email |-> "g@x.com", name |-> "Grace"]],
      [token |-> "t1", email |-> "g@x.com", name |-> "Grace"],
      [token |-> "t1", email |-> ""] }

\* file lists a drop or a file dialog may carry
OverCap == [i \in 1..(MaxFiles + 1) |-> "a"]
FileBatches == { <<"a">>, OverCap }

\* file lists with distinguishable files: none, three, and more than the cap
Triple == <<"a", "b", "c">>
OverCapNamed == [i \in 1..(MaxFiles + 1) |-> IF i % 2 = 1 THEN "d" ELSE "e"]
NamedBatches == { <<>>, Triple, OverCapNamed }

\* lists the page may already hold
NamedInitial == { <<>>, <<"c">>, <<"c", "b">> }

\* Math.random() * 15, on the integer grid
Increments == {0, 7, 14}
MainIncrements == {14}

Pages == {"landing", "upload", "dashboard"}

----------------------------------------------------------------------------
(* AuthProvider *)

\* EmailOf with the data ignored (mutant for C9)
EmailOfIgnoresData(data) == "user@example.com"

\* data.email || 'user@example.com'
EmailOf(data) ==
    IF "email" \in DOMAIN data /\ data.email # ""
    THEN data.email
    ELSE "user@example.com"

\* the record handed to setUser (trialEnds, a clock reading, is left out)
MockUser(data) ==
    [id |-> 1, email |-> EmailOf(data), name |-> "John Doe",
     plan |-> "trial", credits |-> 50]

\* login(method, data): setLoading(true); setTimeout(..., 1000)
Login(method, data) ==
    /\ loading' = TRUE
    /\ loginTimers' = Append(loginTimers, [method |-> method, data |-> data])
    /\ UNCHANGED user

----------------------------------------------------------------------------
(* What InvoiceAI renders *)

\* the renderings with a test dropped (mutants for C3 and C2)
NavigationAlwaysRendered == TRUE
LandingRenderedAnyUser == currentPage = "landing"

NavigationRendered == user # Null
LandingRendered    == currentPage = "landing" /\ user = Null
UploadRendered     == currentPage = "upload" /\ user # Null
DashboardRendered  == currentPage = "dashboard" /\ user # Null

\* useEffect(() => { if (user && currentPage === 'landing') ... })
EffectPending == user # Null /\ currentPage = "landing"

\* React runs the effect of a commit before the next event is dispatched
Quiescent == ~EffectPending

UploadMounted(u, p) == p = "upload" /\ u # Null

\* The upload page after the render that follows a change of user or
\* currentPage to (u, p).  Unmounting drops the page's state; its interval is
\* not cleared (there is no cleanup), and the updater of an unmounted
\* component is run at most once more, which clears the interval only if the
\* last progress was already >= 100.
Render(u, p) ==
    IF UploadMounted(user, currentPage) /\ ~UploadMounted(u, p)
    THEN /\ files' = <<>>
         /\ isDragging' = FALSE
         /\ uploadProgress' = 0
         /\ isUploading' = FALSE
         /\ interval' = FALSE
         /\ orphans' \in
              IF ~interval THEN {orphans}
              ELSE IF uploadProgress >= ProgressDone THEN {orphans, orphans + 1}
              ELSE {orphans + 1}
    ELSE UNCHANGED uploadVars

----------------------------------------------------------------------------
(* Dashboard *)

\* the literal handed to useState
MockInvoices ==
    << [id |-> 1, filename |-> "invoice-001.pdf", status |-> "completed",
        uploadedAt |-> "2025-08-29T10:30:00Z", vendor |-> "ABC Company",
        total |-> "$1,250.00"],
       [id |-> 2, filename |-> "receipt-002.jpg", status |-> "processing",
        uploadedAt |-> "2025-08-29T11:15:00Z", vendor |-> "XYZ Corp",
        total |-> "null"],
       [id |-> 3, filename |-> "bill-003.png", status |-> "failed",
        uploadedAt |-> "2025-08-29T09:45:00Z", vendor |-> "null",
        total |-> "null"] >>

----------------------------------------------------------------------------
Init ==
    /\ user = Null
    /\ loading = FALSE
    /\ loginTimers = <<>>
    /\ mode = "login"
    /\ email = ""
    /\ isSubmitting = FALSE
    /\ magicTimers = <<>>
    /\ inflight = <<>>
    /\ network = <<>>
    /\ files = <<>>
    /\ isDragging = FALSE
    /\ uploadProgress = 0
    /\ isUploading = FALSE
    /\ interval = FALSE
    /\ orphans = 0
    /\ invoices = MockInvoices
    /\ currentPage = "landing"
    /\ showAuthModal = FALSE

----------------------------------------------------------------------------
(* InvoiceAI: the page shell *)

\* handleLogin, the landing page's onLogin
HandleLogin ==
    /\ Quiescent
    /\ LandingRendered
    /\ showAuthModal' = TRUE
    /\ UNCHANGED <<authVars, modalVars, netVars, uploadVars, invoices, currentPage>>

\* onClose as the modal's backdrop and X button call it
OnClose ==
    /\ Quiescent
    /\ showAuthModal
    /\ showAuthModal' = FALSE
    /\ UNCHANGED <<authVars, modalVars, netVars, uploadVars, invoices, currentPage>>

\* the effect sending the user to the upload page (mutant for C15)
EffectToUpload ==
    /\ user # Null /\ currentPage = "landing"
    /\ currentPage' = "upload"
    /\ Render(user, "upload")
    /\ UNCHANGED <<authVars, modalVars, netVars, invoices, showAuthModal>>

\* the effect on [user, currentPage]
Effect ==
    /\ user # Null /\ currentPage = "landing"
    /\ currentPage' = "dashboard"
    /\ Render(user, "dashboard")
    /\ UNCHANGED <<authVars, modalVars, netVars, invoices, showAuthModal>>

\* handleNavigation(page), from the navigation bar's two buttons
HandleNavigation(page) ==
    /\ Quiescent
    /\ NavigationRendered
    /\ currentPage' = page
    /\ Render(user, page)
    /\ UNCHANGED <<authVars, modalVars, netVars, invoices, showAuthModal>>

\* logout that also returns to the landing page (mutant for C8)
LogoutToLanding ==
    /\ ~(user # Null /\ currentPage = "landing")
    /\ user # Null
    /\ user' = Null
    /\ currentPage' = "landing"
    /\ Render(Null, "landing")
    /\ UNCHANGED <<loading, loginTimers, modalVars, netVars, invoices, showAuthModal>>

\* logout, from the navigation bar's button
Logout ==
    /\ Quiescent
    /\ NavigationRendered
    /\ user' = Null
    /\ Render(Null, currentPage)
    /\ UNCHANGED <<loading, loginTimers, modalVars, netVars, invoices, shellVars>>

----------------------------------------------------------------------------
(* AuthProvider: the timer of login *)

\* the setTimeout callback of login; reading data.email of null throws before
\* setUser is reached
LoginTimerFire ==
    /\ Quiescent
    /\ loginTimers # <<>>
    /\ LET data == Head(loginTimers).data IN
         /\ loginTimers' = Tail(loginTimers)
         /\ IF data = Null
            THEN UNCHANGED <<user, loading, uploadVars>>
            ELSE /\ user' = MockUser(data)
                 /\ loading' = FALSE
                 /\ Render(MockUser(data), currentPage)
    /\ UNCHANGED <<modalVars, netVars, invoices, shellVars>>

----------------------------------------------------------------------------
(* AuthModal *)

Pending == Len(inflight) + Len(magicTimers) + Len(loginTimers)

RemoveAt(s, i) == [j \in 1..(Len(s) - 1) |-> IF j < i THEN s[j] ELSE s[j + 1]]

\* the two buttons that call setMode
SetMode(m) ==
    /\ Quiescent
    /\ showAuthModal
    /\ mode # m
    /\ mode' = m
    /\ UNCHANGED <<authVars, email, isSubmitting, magicTimers, netVars,
                   uploadVars, invoices, shellVars>>

\* onChange of the e-mail input
SetEmail(v) ==
    /\ Quiescent
    /\ showAuthModal /\ mode = "magic-link"
    /\ email' = v
    /\ UNCHANGED <<authVars, mode, isSubmitting, magicTimers, netVars,
                   uploadVars, invoices, shellVars>>

\* handleMagicLink that asks the server to send the link (mutant for C5)
HandleMagicLinkPosts ==
    /\ ~(user # Null /\ currentPage = "landing")
    /\ showAuthModal /\ mode = "magic-link"
    /\ ~isSubmitting
    /\ email # ""
    /\ Len(inflight) + Len(magicTimers) + Len(loginTimers) < MaxPending
    /\ Len(network) < MaxRequests
    /\ isSubmitting' = TRUE
    /\ magicTimers' = Append(magicTimers, email)
    /\ network' = Append(network, [url |-> "/api/auth/magic-link", method |-> "POST",
                                    provider |-> "email", token |-> email])
    /\ UNCHANGED <<authVars, mode, email, inflight, uploadVars, invoices, shellVars>>

\* handleMagicLink: the form submits only with the button enabled and the
\* required input filled; the timer closes over the e-mail of this render
HandleMagicLink ==
    /\ Quiescent
    /\ showAuthModal /\ mode = "magic-link"
    /\ ~isSubmitting
    /\ email # ""
    /\ Pending < MaxPending
    /\ isSubmitting' = TRUE
    /\ magicTimers' = Append(magicTimers, email)
    /\ UNCHANGED <<authVars, mode, email, netVars, uploadVars, invoices, shellVars>>

\* the callback reading the input as it is when the timer fires (mutant for C13)
MagicTimerFireCurrentEmail ==
    /\ Quiescent
    /\ magicTimers # <<>>
    /\ isSubmitting' = FALSE
    /\ Login("magic-link", [email |-> email])
    /\ showAuthModal' = FALSE
    /\ magicTimers' = Tail(magicTimers)
    /\ UNCHANGED <<mode, email, netVars, uploadVars, invoices, currentPage>>

\* the setTimeout callback of handleMagicLink
MagicTimerFire ==
    /\ Quiescent
    /\ magicTimers # <<>>
    /\ isSubmitting' = FALSE
    /\ Login("magic-link", [email |-> Head(magicTimers)])
    /\ showAuthModal' = FALSE
    /\ magicTimers' = Tail(magicTimers)
    /\ UNCHANGED <<mode, email, netVars, uploadVars, invoices, currentPage>>

\* the request the Google handler sends
LoginRequest(credential) ==
    [url |-> "/api/auth/login", method |-> "POST",
     provider |-> "google", token |-> credential]

\* GoogleLogin onSuccess, up to the await of fetch
GoogleOnSuccess(credential) ==
    /\ Quiescent
    /\ showAuthModal /\ mode = "login"
    /\ Pending < MaxPending
    /\ Len(network) < MaxRequests
    /\ network' = Append(network, LoginRequest(credential))
    /\ inflight' = Append(inflight, credential)
    /\ UNCHANGED <<authVars, modalVars, uploadVars, invoices, shellVars>>

\* GoogleLogin onSuccess, after res.ok and res.json(): login("google", data);
\* onClose()
GoogleResponseOk(i, data) ==
    /\ Quiescent
    /\ i \in 1..Len(inflight)
    /\ inflight' = RemoveAt(inflight, i)
    /\ Login("google", data)
    /\ showAuthModal' = FALSE
    /\ UNCHANGED <<modalVars, network, uploadVars, invoices, currentPage>>

\* the catch branch closing the modal as the success path does (mutant for C12)
GoogleResponseFailCloses(i) ==
    /\ ~(user # Null /\ currentPage = "landing")
    /\ i \in 1..Len(inflight)
    /\ inflight' = RemoveAt(inflight, i)
    /\ showAuthModal' = FALSE
    /\ UNCHANGED <<authVars, modalVars, network, uploadVars, invoices, currentPage>>

\* GoogleLogin onSuccess, the catch branch: fetch rejected, !res.ok, or
\* res.json() rejected; console.error only
GoogleResponseFail(i) ==
    /\ Quiescent
    /\ i \in 1..Len(inflight)
    /\ inflight' = RemoveAt(inflight, i)
    /\ UNCHANGED <<authVars, modalVars, network, uploadVars, invoices, shellVars>>

\* GoogleLogin onError: console.log only, no state is written
GoogleOnError ==
    /\ Quiescent
    /\ showAuthModal /\ mode = "login"
    /\ UNCHANGED vars

----------------------------------------------------------------------------
(* UploadPage *)

\* Array.prototype.slice(0, end)
Slice0(s, end) ==
    LET n == Len(s)
        e == IF end < 0 THEN Max(n + end, 0) ELSE Min(end, n)
    IN  SubSeq(s, 1, e)

\* AddFiles putting the new files in front (mutant for C14)
AddFilesNewestFirst(prev, added) == Slice0(added, MaxFiles - Len(prev)) \o prev

\* AddFiles with the cut one file late (mutant for C1)
AddFilesOffByOne(prev, added) == prev \o Slice0(added, MaxFiles - Len(prev) + 1)

\* prev => [...prev, ...added.slice(0, 100 - prev.length)]
AddFiles(prev, added) == prev \o Slice0(added, MaxFiles - Len(prev))

DragEnter ==
    /\ Quiescent /\ UploadRendered
    /\ isDragging' = TRUE
    /\ UNCHANGED <<authVars, modalVars, netVars, files, uploadProgress,
                   isUploading, interval, orphans, invoices, shellVars>>

DragLeave ==
    /\ Quiescent /\ UploadRendered
    /\ isDragging' = FALSE
    /\ UNCHANGED <<authVars, modalVars, netVars, files, uploadProgress,
                   isUploading, interval, orphans, invoices, shellVars>>

HandleDrop(droppedFiles) ==
    /\ Quiescent /\ UploadRendered
    /\ isDragging' = FALSE
    /\ files' = AddFiles(files, droppedFiles)
    /\ UNCHANGED <<authVars, modalVars, netVars, uploadProgress,
                   isUploading, interval, orphans, invoices, shellVars>>

HandleFileSelect(selectedFiles) ==
    /\ Quiescent /\ UploadRendered
    /\ files' = AddFiles(files, selectedFiles)
    /\ UNCHANGED <<authVars, modalVars, netVars, isDragging, uploadProgress,
                   isUploading, interval, orphans, invoices, shellVars>>

\* the X button of row i: setFiles(files.filter((_, idx) => idx !== i))
RemoveFile(i) ==
    /\ Quiescent /\ UploadRendered
    /\ i \in 1..Len(files)
    /\ files' = RemoveAt(files, i)
    /\ UNCHANGED <<authVars, modalVars, netVars, isDragging, uploadProgress,
                   isUploading, interval, orphans, invoices, shellVars>>

\* Clear All, rendered with the file list
ClearAll ==
    /\ Quiescent /\ UploadRendered
    /\ Len(files) > 0
    /\ files' = <<>>
    /\ UNCHANGED <<authVars, modalVars, netVars, isDragging, uploadProgress,
                   isUploading, interval, orphans, invoices, shellVars>>

\* startUpload; its button is rendered with the file list while !isUploading
StartUpload ==
    /\ Quiescent /\ UploadRendered
    /\ Len(files) > 0 /\ ~isUploading
    /\ orphans < MaxOrphans
    /\ isUploading' = TRUE
    /\ uploadProgress' = 0
    /\ interval' = TRUE
    /\ UNCHANGED <<authVars, modalVars, netVars, files, isDragging, orphans,
                   invoices, shellVars>>

\* IntervalTick that records the upload on completion (mutant for C7)
IntervalTickAddsInvoice(inc) ==
    /\ ~(user # Null /\ currentPage = "landing")
    /\ currentPage = "upload" /\ user # Null
    /\ interval
    /\ IF uploadProgress >= ProgressDone
       THEN /\ interval' = FALSE
            /\ isUploading' = FALSE
            /\ uploadProgress' = 100
            /\ invoices' = Append(invoices, [id |-> Len(invoices) + 1,
                                              filename |-> "upload.pdf",
                                              status |-> "processing",
                                              uploadedAt |-> "now",
                                              vendor |-> "null", total |-> "null"])
       ELSE /\ uploadProgress' = uploadProgress + inc
            /\ UNCHANGED <<isUploading, interval, invoices>>
    /\ UNCHANGED <<authVars, modalVars, netVars, files, isDragging, orphans, shellVars>>

\* one firing of the interval: the updater handed to setUploadProgress
IntervalTick(inc) ==
    /\ Quiescent /\ UploadRendered
    /\ interval
    /\ IF uploadProgress >= ProgressDone
       THEN /\ interval' = FALSE
            /\ isUploading' = FALSE
            /\ uploadProgress' = 100
       ELSE /\ uploadProgress' = uploadProgress + inc
            /\ UNCHANGED <<isUploading, interval>>
    /\ UNCHANGED <<authVars, modalVars, netVars, files, isDragging, orphans,
                   invoices, shellVars>>

----------------------------------------------------------------------------
(* Specifications *)

\* The whole application.  The upload page takes part with an over-cap drop
\* or selection, Clear All and a simulation in steps of MainIncrement.
Next ==
    \/ HandleLogin
    \/ OnClose
    \/ Effect
    \/ \E page \in {"dashboard", "upload"} : HandleNavigation(page)
    \/ Logout
    \/ LoginTimerFire
    \/ \E m \in {"login", "magic-link"} : SetMode(m)
    \/ \E v \in EmailInputs : SetEmail(v)
    \/ HandleMagicLink
    \/ MagicTimerFire
    \/ \E credential \in Credentials : GoogleOnSuccess(credential)
    \/ \E i \in 1..Len(inflight), data \in ServerData : GoogleResponseOk(i, data)
    \/ \E i \in 1..Len(inflight) : GoogleResponseFail(i)
    \/ GoogleOnError
    \/ HandleDrop(OverCap)
    \/ HandleFileSelect(OverCap)
    \/ ClearAll
    \/ StartUpload
    \/ \E inc \in MainIncrements : IntervalTick(inc)

Spec == Init /\ [][Next]_vars

\* The upload page with every input, from the state the application is in
\* once a magic-link sign-in with a@x.com has completed and the Upload
\* button of the navigation bar has been pressed.
InitUpload ==
    /\ user = MockUser([email |-> "a@x.com"])
    /\ loading = FALSE
    /\ loginTimers = <<>>
    /\ mode = "magic-link"
    /\ email = "a@x.com"
    /\ isSubmitting = FALSE
    /\ magicTimers = <<>>
    /\ inflight = <<>>
    /\ network = <<>>
    /\ files = <<>>
    /\ isDragging = FALSE
    /\ uploadProgress = 0
    /\ isUploading = FALSE
    /\ interval = FALSE
    /\ orphans = 0
    /\ invoices = MockInvoices
    /\ currentPage = "upload"
    /\ showAuthModal = FALSE

NextUpload ==
    \/ DragEnter
    \/ DragLeave
    \/ \E b \in FileBatches : HandleDrop(b)
    \/ \E b \in FileBatches : HandleFileSelect(b)
    \/ \E i \in 1..Len(files) : RemoveFile(i)
    \/ ClearAll
    \/ StartUpload
    \/ \E inc \in Increments : IntervalTick(inc)
    \/ \E page \in {"dashboard", "upload"} : HandleNavigation(page)
    \/ Logout

SpecUpload == InitUpload /\ [][NextUpload]_vars

\* The upload page's list with distinguishable files: drops and selections
\* onto a list of zero, one or two files, up to and beyond the cap.
InitFiles ==
    /\ user = MockUser([email |-> "a@x.com"])
    /\ loading = FALSE
    /\ loginTimers = <<>>
    /\ mode = "magic-link"
    /\ email = "a@x.com"
    /\ isSubmitting = FALSE
    /\ magicTimers = <<>>
    /\ inflight = <<>>
    /\ network = <<>>
    /\ files \in NamedInitial
    /\ isDragging = FALSE
    /\ uploadProgress = 0
    /\ isUploading = FALSE
    /\ interval = FALSE
    /\ orphans = 0
    /\ invoices = MockInvoices
    /\ currentPage = "upload"
    /\ showAuthModal = FALSE

NextFiles ==
    \/ DragEnter
    \/ DragLeave
    \/ \E b \in NamedBatches : HandleDrop(b)
    \/ \E b \in NamedBatches : HandleFileSelect(b)
    \/ ClearAll

SpecFiles == InitFiles /\ [][NextFiles]_vars

\* the timer of the simulation fires for as long as it is live, and
\* Math.random() does not return 0 for ever
FairSpecUpload ==
    /\ SpecUpload
    /\ WF_vars(\E inc \in Increments \ {0} : IntervalTick(inc))

----------------------------------------------------------------------------
(* Properties *)

\* C1: whatever drops, selections, removals and clearings have happened, the
\* selected-file list holds at most 100 files.
C1_FileCap == Len(files) <= 100

\* C1 witness: the list is full after a drop or selection that had to be cut
C1_Witness == Len(files) = 100 /\ UploadRendered

\* C2: currentPage is one of the three page names and at most one page view
\* is rendered; landing needs no user, upload and dashboard need a user.
C2_OneView ==
    /\ currentPage \in {"landing", "upload", "dashboard"}
    /\ ~(LandingRendered /\ UploadRendered)
    /\ ~(LandingRendered /\ DashboardRendered)
    /\ ~(UploadRendered /\ DashboardRendered)
    /\ LandingRendered => currentPage = "landing" /\ user = Null
    /\ UploadRendered => currentPage = "upload" /\ user # Null
    /\ DashboardRendered => currentPage = "dashboard" /\ user # Null

\* C2 witness: a signed-in user looks at the upload view with files selected
C2_Witness == UploadRendered /\ Len(files) > 0

\* C3: the navigation bar is rendered exactly when a user is signed in, and
\* every step of handleNavigation or logout starts with a user signed in.
C3_NavOnlySignedIn ==
    [][ /\ NavigationRendered <=> user # Null
        /\ ((\E page \in {"dashboard", "upload"} : HandleNavigation(page)) \/ Logout)
              => user # Null ]_vars

\* C3 witness: the Upload button was pressed and then the logout button
C3_Witness == user = Null /\ currentPage = "upload"

\* C4 (as claimed): a call of login sets loading and leaves user alone, and
\* the firing of its timer sets user to a record and clears loading.
C4_LoginTimerSetsUser ==
    [][ /\ Len(loginTimers') > Len(loginTimers) => loading' = TRUE /\ user' = user
        /\ Len(loginTimers') < Len(loginTimers) => user' # Null /\ loading' = FALSE ]_vars

\* C5: the network log grows only in a step of the Google success handler,
\* and such a step adds exactly one POST to /api/auth/login whose token is
\* the credential it was handed.
C5_OnlyGooglePosts ==
    [][ /\ network' # network =>
              \E c \in Credentials : GoogleOnSuccess(c)
        /\ \A c \in Credentials : GoogleOnSuccess(c) =>
              /\ Len(network') = Len(network) + 1
              /\ SubSeq(network', 1, Len(network)) = network
              /\ network'[Len(network')].url = "/api/auth/login"
              /\ network'[Len(network')].method = "POST"
              /\ network'[Len(network')].token = c ]_vars

\* C5 witness: two sign-ins with different credentials have been posted and a
\* user is signed in
C5_Witness ==
    /\ Len(network) = 2
    /\ network[1].token # network[2].token
    /\ user # Null

\* C6 (as claimed): a simulation that has been started finishes: the interval
\* is cleared, none is left live, isUploading is false and uploadProgress is
\* exactly 100.
C6_UploadFinishes ==
    (isUploading /\ interval) ~>
        (~isUploading /\ ~interval /\ orphans = 0 /\ uploadProgress = 100)

\* C7: the dashboard's list is the three mock records, ids 1, 2, 3 with
\* statuses completed, processing, failed, in every state.
C7_StaticInvoices ==
    /\ Len(invoices) = 3
    /\ \A i \in 1..3 : invoices[i].id = i
    /\ invoices[1].status = "completed"
    /\ invoices[2].status = "processing"
    /\ invoices[3].status = "failed"
    /\ invoices = MockInvoices

\* C7 witness: files were selected and a simulated upload ran to completion
C7_Witness ==
    UploadRendered /\ Len(files) > 0 /\ ~isUploading /\ uploadProgress = 100

C10_ServerUserSaved ==
    [][ ( /\ Len(loginTimers') < Len(loginTimers)
          /\ Head(loginTimers).method = "google"
          /\ Head(loginTimers).data # Null ) =>
          LET d == Head(loginTimers).data IN
            /\ "token" \in DOMAIN user' /\ user'.token = d.token
            /\ "name" \in DOMAIN d => user'.name = d.name ]_vars

\* C11 (as claimed): when the simulation completes, isUploading going false
\* with uploadProgress 100, currentPage becomes 'dashboard'.
C11_RedirectOnCompletion ==
    [][ (isUploading /\ ~isUploading' /\ uploadProgress' = 100)
          => currentPage' = "dashboard" ]_vars

\* C12: a step of the Google handler's catch branch (fetch rejected, response
\* not ok, body not parsed) or of onError calls no login (no login timer is
\* added), leaves user and loading as they were and leaves the modal as it
\* was; beyond the finished request nothing of the state changes.
C12_FailureOnlyLogged ==
    [][ /\ \A i \in 1..Len(inflight) : GoogleResponseFail(i) =>
              /\ loginTimers' = loginTimers
              /\ user' = user /\ loading' = loading
              /\ showAuthModal' = showAuthModal
              /\ UNCHANGED <<currentPage, modalVars, network, uploadVars, invoices>>
        /\ GoogleOnError =>
              /\ loginTimers' = loginTimers
              /\ user' = user /\ loading' = loading
              /\ showAuthModal' = showAuthModal ]_vars

\* C12 witness: every request sent has failed; nobody was ever signed in, no
\* login was called and the modal is still open
C12_Witness ==
    /\ Len(network) > 0 /\ inflight = <<>>
    /\ loginTimers = <<>> /\ magicTimers = <<>>
    /\ currentPage = "landing" /\ user = Null /\ ~loading
    /\ showAuthModal

\* C13: submitting the magic-link form sets isSubmitting and arms a timer
\* holding the e-mail of the input at that moment; the firing of that timer
\* clears isSubmitting, calls login('magic-link', {email}) with the held
\* e-mail and closes the modal while user is still what it was, so the modal
\* is closed strictly before the login's own timer sets user; and that timer
\* sets user.email to the submitted e-mail.
C13_MagicLinkOrder ==
    [][ /\ HandleMagicLink =>
              /\ isSubmitting'
              /\ magicTimers' = Append(magicTimers, email)
        /\ Len(magicTimers') < Len(magicTimers) =>
              /\ ~isSubmitting'
              /\ loginTimers' = Append(loginTimers,
                     [method |-> "magic-link",
                      data |-> [email |-> Head(magicTimers)]])
              /\ ~showAuthModal'
              /\ user' = user
        /\ ( /\ Len(loginTimers') < Len(loginTimers)
             /\ Head(loginTimers).method = "magic-link" ) =>
              /\ user' # Null
              /\ user'.email = Head(loginTimers).data.email ]_vars

\* C13 witness: signed in by magic link with the submitted address although
\* the input was emptied while the link was being sent
C13_Witness ==
    /\ user # Null /\ user.email = "a@x.com"
    /\ email = "" /\ ~isSubmitting /\ ~showAuthModal

\* C14: a drop or selection of N onto the list F (at most 100 long) gives F
\* followed by the first min(|N|, 100 - |F|) files of N in their order: F is
\* kept as a prefix and what exceeds the cap is discarded.
C14_AppendUpToCap ==
    [][ \A b \in NamedBatches :
          (HandleDrop(b) \/ HandleFileSelect(b)) =>
            /\ Len(files) <= 100
            /\ Len(files') = Len(files) + Min(Len(b), 100 - Len(files))
            /\ SubSeq(files', 1, Len(files)) = files
            /\ \A k \in 1..Min(Len(b), 100 - Len(files)) :
                  files'[Len(files) + k] = b[k] ]_vars

\* C14 witness: three files were added to a list of 98 and the third was cut
C14_Witness ==
    /\ Len(files) = 100
    /\ files[1] = "c" /\ files[2] = "b"
    /\ files[98] = "c" /\ files[99] = "a" /\ files[100] = "b"

\* C15: from a state with a user on 'landing' the step that follows is the
\* effect, which sets currentPage to 'dashboard' and leaves the user; hence a
\* signed-in user with no effect pending is on 'dashboard' or 'upload' and
\* sees that view.
C15_LandingEffect ==
    /\ [][ (user # Null /\ currentPage = "landing") =>
              (currentPage' = "dashboard" /\ user' = user) ]_vars
    /\ []( (user # Null /\ ~EffectPending) =>
              /\ currentPage \in {"dashboard", "upload"}
              /\ DashboardRendered \/ UploadRendered )

\* C15 witness: signed in from the landing page, the effect has run and the
\* dashboard is shown
C15_Witness == DashboardRendered /\ ~loading /\ loginTimers = <<>>

====
